---- MODULE Spec2Model ----
(***************************************************************************)
(* Model of the Goddard primal-dual continuation driver                    *)
(* (python/main_goddard_primal_dual_casadi.py, main_primal_dual) and of    *)
(* the Zermelo problem functions (Zermelo/ZermeloPrimalOCP.py).            *)
(*                                                                         *)
(* Spec   : the continuation driver, one action per stretch of code        *)
(*          between two calls of the external BVP solver.                  *)
(* SpecZ  : the pure functions of ZermeloPrimalOCP applied to inputs drawn *)
(*          from a bounded grid of exact rationals.                        *)
(***************************************************************************)
EXTENDS Integers, Sequences, FiniteSets, TLC

VARIABLES pc, eps, alpha, ocp_eps, bvp_sol, infos, txz, convergence, iter,
          times, calls, optimal_solution, pickle_file, outcome,
          z_eps, zcall

dvars == <<pc, eps, alpha, ocp_eps, bvp_sol, infos, txz, convergence, iter,
           times, calls, optimal_solution, pickle_file, outcome>>
zvars == <<z_eps, zcall>>
vars == <<dvars, zvars>>

(***************************************************************************)
(* Python floats of the driver.  A positive float is a significand m and   *)
(* a binary exponent e, value (m / 2^10) * 2^e with 2^10 <= m < 2^11: the  *)
(* IEEE significand cut to its 10 leading fraction bits.  Every value the  *)
(* driver computes is a power of two (m = 2^10), for which the operations  *)
(* below are exact; NaF (m = 0) stands for "no value".                     *)
(***************************************************************************)
Float(m, e) == [m |-> m, e |-> e]

NaF == Float(0, 0)

\* eps <= tol, line 55
FLe(a, b) == /\ a.m # 0
             /\ b.m # 0
             /\ \/ a.e < b.e
                \/ a.e = b.e /\ a.m <= b.m

\* eps *= alpha, line 56
FMul(a, b) ==
    LET p == a.m * b.m
    IN  IF p >= 2^21 THEN Float(p \div 2^11, a.e + b.e + 1)
                     ELSE Float(p \div 2^10, a.e + b.e)

\* eps / alpha, line 72
FDiv(a, b) ==
    IF a.m >= b.m THEN Float((a.m * 2^10) \div b.m, a.e - b.e)
                  ELSE Float((a.m * 2^11) \div b.m, a.e - b.e - 1)

\* eps = 1., line 31
eps0 == Float(2^10, 0)

\* alpha = .5, line 32
alpha0 == Float(2^10, -1)

\* tol = 1e-10, line 33: 1e-10 = 1.7179869184 * 2^-34, and
\* floor(1.7179869184 * 2^10) = 1759
tol == Float(1759, -34)

(***************************************************************************)
(* Trajectories.  A trajectory (time, xp, z) is identified by the solver   *)
(* call that produced it (0: ocp.initialize()), the barrier weight the     *)
(* problem object held during that call, and whether the call succeeded.   *)
(***************************************************************************)
Traj(n, e, ok) == [call |-> n, eps |-> e, success |-> ok]

\* ocp.initialize(), line 36
initialize == Traj(0, NaF, FALSE)

NoTraj == Traj(-1, NaF, FALSE)

\* ZermeloPrimalOCP.set_eps: self.eps = eps
set_eps(e) == e

\* bvp_solver.solve(bvp_sol, ocp): the n-th call, run with the barrier weight
\* stored in ocp; ok is what infos.success reports.
bvp_solver_solve(sol, ocpeps, n, ok) ==
    [sol |-> Traj(n, ocpeps, ok), infos |-> [success |-> ok]]

NoSolution == [traj |-> NoTraj, eps |-> NaF, alpha |-> NaF, iter |-> -1]

NoFile == [initial_solution |-> NoTraj, optimal_solution |-> NoSolution]

\* What the caller of main_primal_dual gets: nothing yet, the returned
\* record, or an exception with its message and whatever else it carries.
Outcome(k, msg, t, e, rec) ==
    [kind |-> k, msg |-> msg, traj |-> t, eps |-> e, value |-> rec]

Init ==
    /\ pc = "start"
    /\ eps = NaF
    /\ alpha = NaF
    /\ ocp_eps = NaF
    /\ bvp_sol = NoTraj
    /\ infos = [success |-> FALSE]
    /\ txz = NoTraj
    /\ convergence = FALSE
    /\ iter = 0
    /\ times = <<>>
    /\ calls = <<>>
    /\ optimal_solution = NoSolution
    /\ pickle_file = NoFile
    /\ outcome = Outcome("none", "", NoTraj, NaF, NoSolution)
    /\ z_eps = [n |-> 1, d |-> 1]
    /\ zcall = [fn |-> "none", pt |-> <<>>, mode |-> <<0, 0>>, out |-> <<>>]

\* lines 30-43
Setup ==
    /\ pc = "start"
    /\ eps' = eps0
    /\ alpha' = alpha0
    /\ ocp_eps' = set_eps(eps0)
    /\ txz' = initialize
    /\ bvp_sol' = initialize
    /\ convergence' = FALSE
    /\ iter' = 0
    /\ times' = <<>>
    /\ pc' = "while"
    /\ UNCHANGED <<infos, calls, optimal_solution, pickle_file, outcome, zvars>>

\* line 45, loop entered
LoopEnter ==
    /\ pc = "while"
    /\ ~convergence
    /\ pc' = "solve"
    /\ UNCHANGED <<eps, alpha, ocp_eps, bvp_sol, infos, txz, convergence, iter,
                   times, calls, optimal_solution, pickle_file, outcome, zvars>>

\* line 45, loop left
LoopExit ==
    /\ pc = "while"
    /\ convergence
    /\ pc' = "finish"
    /\ UNCHANGED <<eps, alpha, ocp_eps, bvp_sol, infos, txz, convergence, iter,
                   times, calls, optimal_solution, pickle_file, outcome, zvars>>

\* lines 46-51
Solve ==
    /\ pc = "solve"
    /\ \E ok \in BOOLEAN :
         LET r == bvp_solver_solve(bvp_sol, ocp_eps, Len(calls) + 1, ok)
         IN  /\ bvp_sol' = r.sol
             /\ infos' = r.infos
             /\ calls' = Append(calls, [eps |-> eps, ocp_eps |-> ocp_eps,
                                        success |-> ok])
    /\ pc' = "check"
    /\ UNCHANGED <<eps, alpha, ocp_eps, txz, convergence, iter, times,
                   optimal_solution, pickle_file, outcome, zvars>>

\* RaiseFailure as a driver with a retry policy would have it: the failed
\* solve is attempted again instead of raising.
RaiseFailure_retry ==
    /\ pc = "check"
    /\ ~infos.success
    /\ pc' = "solve"
    /\ UNCHANGED <<eps, alpha, ocp_eps, bvp_sol, infos, txz, convergence, iter,
                   times, calls, optimal_solution, pickle_file, outcome, zvars>>

\* lines 52-53
RaiseFailure ==
    /\ pc = "check"
    /\ ~infos.success
    /\ outcome' = Outcome("exception",
                          "Primal-dual Goddard problem failed before convergence",
                          NoTraj, NaF, NoSolution)
    /\ pc' = "raised"
    /\ UNCHANGED <<eps, alpha, ocp_eps, bvp_sol, infos, txz, convergence, iter,
                   times, calls, optimal_solution, pickle_file, zvars>>

\* Update with the convergence test made on the weight of the previous
\* iteration (eps / alpha) instead of the current one.
Update_stale_test ==
    /\ pc = "check"
    /\ infos.success
    /\ txz' = bvp_sol
    /\ convergence' = FLe(FDiv(eps, alpha), tol)
    /\ eps' = FMul(eps, alpha)
    /\ ocp_eps' = set_eps(FMul(eps, alpha))
    /\ times' = Append(times, bvp_sol)
    /\ iter' = iter + 1
    /\ pc' = "while"
    /\ UNCHANGED <<alpha, bvp_sol, infos, calls, optimal_solution, pickle_file,
                   outcome, zvars>>

\* Update with the weight contracted twice per iteration.
Update_double_contract ==
    /\ pc = "check"
    /\ infos.success
    /\ txz' = bvp_sol
    /\ convergence' = FLe(eps, tol)
    /\ eps' = FMul(FMul(eps, alpha), alpha)
    /\ ocp_eps' = set_eps(FMul(FMul(eps, alpha), alpha))
    /\ times' = Append(times, bvp_sol)
    /\ iter' = iter + 1
    /\ pc' = "while"
    /\ UNCHANGED <<alpha, bvp_sol, infos, calls, optimal_solution, pickle_file,
                   outcome, zvars>>

\* Update with the convergence test made on the contracted weight, i.e. with
\* lines 55 and 56 swapped.
Update_test_after_contract ==
    /\ pc = "check"
    /\ infos.success
    /\ txz' = bvp_sol
    /\ convergence' = FLe(FMul(eps, alpha), tol)
    /\ eps' = FMul(eps, alpha)
    /\ ocp_eps' = set_eps(FMul(eps, alpha))
    /\ times' = Append(times, bvp_sol)
    /\ iter' = iter + 1
    /\ pc' = "while"
    /\ UNCHANGED <<alpha, bvp_sol, infos, calls, optimal_solution, pickle_file,
                   outcome, zvars>>

\* Update without the call ocp.set_eps(eps) of line 57.
Update_no_set_eps ==
    /\ pc = "check"
    /\ infos.success
    /\ txz' = bvp_sol
    /\ convergence' = FLe(eps, tol)
    /\ eps' = FMul(eps, alpha)
    /\ ocp_eps' = ocp_eps
    /\ times' = Append(times, bvp_sol)
    /\ iter' = iter + 1
    /\ pc' = "while"
    /\ UNCHANGED <<alpha, bvp_sol, infos, calls, optimal_solution, pickle_file,
                   outcome, zvars>>

\* lines 54-71
Update ==
    /\ pc = "check"
    /\ infos.success
    /\ txz' = bvp_sol
    /\ convergence' = FLe(eps, tol)
    /\ eps' = FMul(eps, alpha)
    /\ ocp_eps' = set_eps(FMul(eps, alpha))
    /\ times' = Append(times, bvp_sol)
    /\ iter' = iter + 1
    /\ pc' = "while"
    /\ UNCHANGED <<alpha, bvp_sol, infos, calls, optimal_solution, pickle_file,
                   outcome, zvars>>

\* Finish recording the already contracted weight (eps instead of eps / alpha).
Finish_contracted_eps ==
    /\ pc = "finish"
    /\ LET sol == [traj |-> txz, eps |-> eps, alpha |-> alpha, iter |-> iter]
       IN  /\ optimal_solution' = sol
           /\ pickle_file' = [initial_solution |-> initialize,
                              optimal_solution |-> sol]
           /\ outcome' = Outcome("return", "", NoTraj, NaF, sol)
    /\ pc' = "done"
    /\ UNCHANGED <<eps, alpha, ocp_eps, bvp_sol, infos, txz, convergence, iter,
                   times, calls, zvars>>

\* lines 72-106
Finish ==
    /\ pc = "finish"
    /\ LET sol == [traj |-> txz, eps |-> FDiv(eps, alpha), alpha |-> alpha,
                   iter |-> iter]
       IN  /\ optimal_solution' = sol
           /\ pickle_file' = [initial_solution |-> initialize,
                              optimal_solution |-> sol]
           /\ outcome' = Outcome("return", "", NoTraj, NaF, sol)
    /\ pc' = "done"
    /\ UNCHANGED <<eps, alpha, ocp_eps, bvp_sol, infos, txz, convergence, iter,
                   times, calls, zvars>>

Next ==
    \/ Setup
    \/ LoopEnter
    \/ LoopExit
    \/ Solve
    \/ RaiseFailure
    \/ Update
    \/ Finish

Spec == Init /\ [][Next]_vars

(***************************************************************************)
(* ZermeloPrimalOCP.  Its floats are modelled as exact rationals n/d in    *)
(* lowest terms with d > 0, so that "is the derivative of" can be decided  *)
(* exactly: the functions below are polynomials of degree <= 2 in the      *)
(* state, for which a central difference is the derivative.                *)
(***************************************************************************)
Abs(i) == IF i < 0 THEN -i ELSE i

RECURSIVE Gcd(_, _)
Gcd(i, j) == IF j = 0 THEN i ELSE Gcd(j, i % j)

Rat(n, d) ==
    LET g == Gcd(Abs(n), Abs(d))
        sg == IF d < 0 THEN -1 ELSE 1
    IN  [n |-> (sg * n) \div g, d |-> (sg * d) \div g]

Zero == Rat(0, 1)

RAdd(p, q) == Rat(p.n * q.d + q.n * p.d, p.d * q.d)

RNeg(p) == Rat(-p.n, p.d)

RSub(p, q) == RAdd(p, RNeg(q))

RMul(p, q) == Rat(p.n * q.n, p.d * q.d)

RDiv(p, q) == Rat(p.n * q.d, p.d * q.n)

RSq(p) == RMul(p, p)

\* np.cos and np.sin at u0 = k * pi / 2
Cos(k) == Rat(CASE k % 4 = 0 -> 1 [] k % 4 = 2 -> -1 [] OTHER -> 0, 1)

Sin(k) == Rat(CASE k % 4 = 1 -> 1 [] k % 4 = 3 -> -1 [] OTHER -> 0, 1)

\* self.a1 = 2.
a1 == Rat(2, 1)

\* self.a2 = .1
a2 == Rat(1, 10)

\* self.r = 2.
r == Rat(2, 1)

\* self.xfinal = np.array([20., 1.])
xfinal == [i \in 0..1 |-> IF i = 0 THEN Rat(20, 1) ELSE Rat(1, 1)]

\* self.center = [self.xfinal[0] / 2., self.xfinal[1] / 2.5]
center == [i \in 0..1 |-> IF i = 0 THEN RDiv(xfinal[0], Rat(2, 1))
                                   ELSE RDiv(xfinal[1], Rat(5, 2))]

\* utils_functions.log_pen, derivative modes of the log barrier -log(-x)
log_pen(x, d) ==
    CASE d = 1 -> RNeg(RDiv(Rat(1, 1), x))
      [] d = 2 -> RDiv(Rat(1, 1), RSq(x))

h(x1, d) ==
    CASE d = 0 -> RAdd(Rat(3, 1),
                       RMul(RMul(Rat(1, 5), x1), RSub(Rat(1, 1), x1)))
      [] d = 1 -> RSub(Rat(1, 5), RMul(Rat(2, 5), x1))
      [] d = 2 -> Rat(-4, 1)
      [] OTHER -> Zero

state_constraint(x0, x1, dx0, dx1) ==
    CASE dx0 = 0 /\ dx1 = 0 ->
           RAdd(RSub(RNeg(RDiv(RSq(RSub(x0, center[0])), RSq(a1))),
                     RDiv(RSq(RSub(x1, center[1])), RSq(a2))),
                RSq(r))
      [] dx0 = 1 /\ dx1 = 0 ->
           RDiv(RMul(Rat(-2, 1), RSub(x0, RDiv(center[0], Rat(2, 1)))),
                RSq(a1))
      [] dx0 = 0 /\ dx1 = 1 ->
           RDiv(RMul(Rat(-2, 1), RSub(x1, RDiv(center[1], Rat(5, 2)))),
                RSq(a2))
      [] dx0 = 2 /\ dx1 = 0 -> RDiv(Rat(-2, 1), RSq(a1))
      [] dx0 = 0 /\ dx1 = 2 -> RDiv(Rat(-2, 1), RSq(a2))
      [] OTHER -> Zero

\* A point (xp, z) of the trajectory: xp = (x0, x1, x2, p0, p1, p2) and
\* z = (u0, u1), the heading u0 given in quarter turns.
Point(x0, x1, x2, p0, p1, p2, u0, u1) ==
    [x0 |-> x0, x1 |-> x1, x2 |-> x2, p0 |-> p0, p1 |-> p1, p2 |-> p2,
     u0 |-> u0, u1 |-> u1]

ode(e, P) ==
    LET lg == RMul(e, log_pen(state_constraint(P.x0, P.x1, 0, 0), 1))
        drift == RAdd(RMul(P.u1, Cos(P.u0)), h(P.x1, 0))
    IN  [i \in 0..5 |->
          CASE i = 0 -> RMul(P.x2, drift)
            [] i = 1 -> RMul(RMul(P.x2, P.u1), Sin(P.u0))
            [] i = 2 -> Zero
            [] i = 3 -> RMul(RNeg(lg), state_constraint(P.x0, P.x1, 1, 0))
            [] i = 4 -> RSub(RMul(RMul(RNeg(P.p0), P.x2), h(P.x1, 1)),
                             RMul(lg, state_constraint(P.x0, P.x1, 0, 1)))
            [] i = 5 -> RSub(RMul(RNeg(P.p0), drift),
                             RMul(RMul(P.p1, P.u1), Sin(P.u0)))]

\* The entries of jacx that odejac assigns (lines 111-122).
jacx_entries(e, P) ==
    LET lg == RMul(e, log_pen(state_constraint(P.x0, P.x1, 0, 0), 1))
        dlg == RMul(e, log_pen(state_constraint(P.x0, P.x1, 0, 0), 2))
        dstate_const_dx0 == state_constraint(P.x0, P.x1, 1, 0)
        dstate_const_dx1 == state_constraint(P.x0, P.x1, 0, 1)
        drift == RAdd(RMul(P.u1, Cos(P.u0)), h(P.x1, 0))
        j31 == RNeg(RAdd(RMul(RMul(dlg, dstate_const_dx1), dstate_const_dx0),
                         RMul(lg, state_constraint(P.x0, P.x1, 1, 1))))
    IN  (<<0, 1>> :> RMul(P.x2, h(P.x1, 1)))
     @@ (<<0, 2>> :> drift)
     @@ (<<1, 2>> :> RMul(P.u1, Sin(P.u0)))
     @@ (<<3, 0>> :> RNeg(RAdd(RMul(dlg, RSq(dstate_const_dx0)),
                              RMul(lg, state_constraint(P.x0, P.x1, 2, 0)))))
     @@ (<<3, 1>> :> j31)
     @@ (<<4, 0>> :> j31)
     @@ (<<4, 1>> :> RSub(RMul(RMul(RNeg(P.p0), P.x2), h(P.x1, 2)),
                         RAdd(RMul(dlg, RSq(dstate_const_dx1)),
                              RMul(lg, state_constraint(P.x0, P.x1, 0, 2)))))
     @@ (<<4, 2>> :> RMul(RNeg(P.p0), h(P.x1, 1)))
     @@ (<<4, 3>> :> RMul(RNeg(P.x2), h(P.x1, 1)))
     @@ (<<5, 1>> :> RMul(RNeg(P.p0), h(P.x1, 1)))
     @@ (<<5, 3>> :> RNeg(drift))
     @@ (<<5, 4>> :> RMul(RNeg(P.u1), Sin(P.u0)))

\* The entries of jacz that odejac assigns (lines 125-128).
jacz_entries(e, P) ==
       (<<0, 0>> :> RMul(RMul(RNeg(P.x2), P.u1), Sin(P.u0)))
    @@ (<<0, 1>> :> RMul(P.x2, Cos(P.u0)))
    @@ (<<1, 0>> :> RMul(RMul(P.x2, P.u1), Cos(P.u0)))
    @@ (<<1, 1>> :> RMul(P.x2, Sin(P.u0)))

\* np.zeros(shape) with the given entries assigned
Filled(rows, cols, entries) ==
    [ij \in rows \X cols |-> IF ij \in DOMAIN entries THEN entries[ij]
                                                       ELSE Zero]

odejac(e, P) ==
    [jacx |-> Filled(0..5, 0..5, jacx_entries(e, P)),
     jacz |-> Filled(0..5, 0..1, jacz_entries(e, P))]

(***************************************************************************)
(* The inputs the functions are applied to.  A behaviour of SpecZ sets the  *)
(* barrier weight any number of times and then applies one function to one *)
(* input; zcall records the call and what it returned.                     *)
(***************************************************************************)
MaxGrid == 2

Grid == {Rat(n, 2) : n \in 0..MaxGrid}

Headings == 0..3

Points ==
    {Point(x0, x1, Rat(1, 1), p0, p1, Zero, u0, u1) :
        x0 \in Grid, x1 \in Grid, p0 \in Grid, p1 \in Grid,
        u0 \in Headings, u1 \in Grid}

OnlyX(x0, x1) == Point(x0, x1, Zero, Zero, Zero, Zero, 0, Zero)

ZCall(fn, P, mode, out) == [fn |-> fn, pt |-> P, mode |-> mode, out |-> out]

\* ocp.set_eps(eps), ZermeloPrimalOCP lines 51-52
Z_set_eps ==
    /\ zcall.fn = "none"
    /\ \E e \in {Rat(1, 1), Rat(1, 2)} : z_eps' = set_eps(e)
    /\ UNCHANGED <<zcall, dvars>>

Z_h ==
    /\ zcall.fn = "none"
    /\ \E x1 \in Grid, d \in 0..3 :
         zcall' = ZCall("h", OnlyX(Zero, x1), <<d, 0>>, h(x1, d))
    /\ UNCHANGED <<z_eps, dvars>>

Z_state_constraint ==
    /\ zcall.fn = "none"
    /\ \E x0 \in Grid, x1 \in Grid, dx0 \in 0..2, dx1 \in 0..2 :
         zcall' = ZCall("state_constraint", OnlyX(x0, x1), <<dx0, dx1>>,
                        state_constraint(x0, x1, dx0, dx1))
    /\ UNCHANGED <<z_eps, dvars>>

Z_ode ==
    /\ zcall.fn = "none"
    /\ \E P \in Points : zcall' = ZCall("ode", P, <<0, 0>>, ode(z_eps, P))
    /\ UNCHANGED <<z_eps, dvars>>

Z_odejac ==
    /\ zcall.fn = "none"
    /\ \E P \in Points :
         zcall' = ZCall("odejac", P, <<0, 0>>, odejac(z_eps, P))
    /\ UNCHANGED <<z_eps, dvars>>

NextZ ==
    \/ Z_set_eps
    \/ Z_h
    \/ Z_state_constraint
    \/ Z_ode
    \/ Z_odejac

SpecZ == Init /\ [][NextZ]_vars

(***************************************************************************)
(* Properties of the continuation driver (checked under Spec).             *)
(***************************************************************************)
RECURSIVE Pow(_, _)
Pow(a, k) == IF k = 0 THEN eps0 ELSE FMul(Pow(a, k - 1), a)

\* Whether eps0 * alpha0^k <= tol.
BelowTol(k) == FLe(FMul(eps0, Pow(alpha0, k)), tol)

\* The least k with eps0 * alpha0^k <= tol, i.e.
\* ceil(log(tol / eps0) / log(alpha0)).
IterBound ==
    CHOOSE k \in 0..100 : BelowTol(k) /\ \A j \in 0..(k - 1) : ~BelowTol(j)

AllSucceeded == \A k \in DOMAIN calls : calls[k].success

Failed == Len(calls) > 0 /\ ~calls[Len(calls)].success

\* C1 (as stated): when every inner solve succeeds, the driver makes at most
\* ceil(log(tol/eps_0)/log(alpha)) = 34 calls of bvp_solver.solve.
C1_AtMostIterBoundSolves ==
    AllSucceeded => (IterBound = 34 /\ Len(calls) <= IterBound)

\* C1 (amended): when every inner solve succeeds, the driver makes at most
\* ceil(log(tol/eps_0)/log(alpha)) + 1 = 35 calls of bvp_solver.solve; the
\* solve at the first weight <= tol is still performed.
C1_AtMostIterBoundPlusOneSolves ==
    AllSucceeded => (IterBound = 34 /\ Len(calls) <= IterBound + 1)

C1_Witness ==
    pc = "done" /\ AllSucceeded /\ Len(calls) = IterBound + 1

\* C2: the k-th inner solve (k = 0, 1, ...) runs with the barrier weight
\* eps_0 * alpha^k, so successive solves use a strictly decreasing geometric
\* sequence of weights with ratio alpha.
C2_GeometricEps ==
    /\ \A k \in DOMAIN calls :
         calls[k].ocp_eps = FMul(eps0, Pow(alpha0, k - 1))
    /\ \A k \in DOMAIN calls :
         k > 1 => /\ calls[k].ocp_eps = FMul(calls[k - 1].ocp_eps, alpha0)
                  /\ ~FLe(calls[k - 1].ocp_eps, calls[k].ocp_eps)

C2_Witness == Len(calls) >= 3 /\ calls[3].ocp_eps = Float(2^10, -2)

\* C3: when an inner solve fails, what the caller receives carries the last
\* successfully converged trajectory and its eps, and the driver's solution
\* object still holds that trajectory, not the output of the failed solve.
C3_FailureCarriesLastSuccess ==
    outcome.kind = "exception" =>
        /\ outcome.traj = txz
        /\ outcome.eps = txz.eps
        /\ bvp_sol = txz

\* C4: once an inner solve has failed, no further solve is made, eps, alpha
\* and the weight stored in the problem object are not changed, and no result
\* record is built or written.
C4_AbortOnFailure ==
    [][Failed => /\ calls' = calls
                 /\ eps' = eps
                 /\ alpha' = alpha
                 /\ ocp_eps' = ocp_eps
                 /\ optimal_solution' = NoSolution
                 /\ pickle_file' = NoFile
                 /\ pc' = "raised"]_vars

C4_Witness == pc = "raised" /\ Len(calls) >= 2 /\ outcome.kind = "exception"

\* C6: on a normal return, the returned trajectory is the output of an inner
\* solve that succeeded and that was run with a barrier weight <= tol.
C6_ReturnedAtTol ==
    pc = "done" =>
        /\ outcome.kind = "return"
        /\ outcome.value.traj.call >= 1
        /\ outcome.value.traj.success
        /\ FLe(outcome.value.traj.eps, tol)

C6_Witness ==
    pc = "done" /\ outcome.value.traj.call = Len(calls) /\ Len(calls) > 1

\* C9: at every call of bvp_solver.solve the weight stored in the problem
\* object is the driver's local eps of that iteration.
C9_OcpEpsIsDriverEps ==
    /\ pc = "solve" => ocp_eps = eps
    /\ \A k \in DOMAIN calls : calls[k].ocp_eps = calls[k].eps

C9_Witness == pc = "solve" /\ Len(calls) >= 2 /\ ocp_eps = eps

\* C10: on a normal return, the eps field of the returned and pickled record
\* is the weight in force during the last inner solve (the one that produced
\* the recorded trajectory), and iter is the number of inner solves.
C10_RecordedEpsAndIter ==
    pc = "done" =>
        /\ optimal_solution.eps = calls[Len(calls)].ocp_eps
        /\ optimal_solution.eps = optimal_solution.traj.eps
        /\ optimal_solution.iter = Len(calls)
        /\ outcome.value = optimal_solution
        /\ pickle_file.optimal_solution = optimal_solution

C10_Witness ==
    pc = "done" /\ optimal_solution.iter = 35
                /\ optimal_solution.eps = Float(2^10, -34)

(***************************************************************************)
(* Properties of ZermeloPrimalOCP (checked under SpecZ).                   *)
(***************************************************************************)
One == Rat(1, 1)

Two == Rat(2, 1)

\* Central differences of the value mode of state_constraint, step 1: the
\* value mode is quadratic, so these are its partial derivatives.
DStateConstraintDx0(x0, x1) ==
    RDiv(RSub(state_constraint(RAdd(x0, One), x1, 0, 0),
              state_constraint(RSub(x0, One), x1, 0, 0)), Two)

DStateConstraintDx1(x0, x1) ==
    RDiv(RSub(state_constraint(x0, RAdd(x1, One), 0, 0),
              state_constraint(x0, RSub(x1, One), 0, 0)), Two)

\* C5: state_constraint(x0, x1, dx0=1) is the partial derivative in x0 of
\* state_constraint(x0, x1), and state_constraint(x0, x1, dx1=1) the one in
\* x1; the adjoint equations of ode are built from these derivatives.
C5_StateConstraintDerivatives ==
    /\ (zcall.fn = "state_constraint" /\ zcall.mode = <<1, 0>>) =>
          zcall.out = DStateConstraintDx0(zcall.pt.x0, zcall.pt.x1)
    /\ (zcall.fn = "state_constraint" /\ zcall.mode = <<0, 1>>) =>
          zcall.out = DStateConstraintDx1(zcall.pt.x0, zcall.pt.x1)
    /\ zcall.fn = "ode" =>
          LET P == zcall.pt
              lg == RMul(z_eps, log_pen(state_constraint(P.x0, P.x1, 0, 0), 1))
          IN  zcall.out[3] = RMul(RNeg(lg), DStateConstraintDx0(P.x0, P.x1))

\* Whether component i of ode changes at P when control j alone is changed.
OdeDependsOn(P, i, j) ==
    \/ j = 0 /\ \E k \in Headings :
                  ode(z_eps, [P EXCEPT !.u0 = k])[i] # ode(z_eps, P)[i]
    \/ j = 1 /\ \E v \in Grid :
                  ode(z_eps, [P EXCEPT !.u1 = v])[i] # ode(z_eps, P)[i]

\* C7: odejac assigns jacz[i, j] for every component i of ode that depends on
\* control j; a row of jacz left zero belongs to a component that depends on
\* neither control.
C7_JaczCoversControls ==
    zcall.fn = "odejac" =>
        \A i \in 0..5, j \in 0..1 :
            OdeDependsOn(zcall.pt, i, j) =>
                <<i, j>> \in DOMAIN jacz_entries(z_eps, zcall.pt)

\* C8: h(x1, d=1) is the derivative of h(x1, d=0), and h(x1, d=2) is the
\* derivative of h(x1, d=1) (h is quadratic and h(., 1) linear, so the
\* differences below are the derivatives).
C8_CurrentProfileDerivatives ==
    /\ (zcall.fn = "h" /\ zcall.mode[1] = 1) =>
          zcall.out = RDiv(RSub(h(RAdd(zcall.pt.x1, One), 0),
                                h(RSub(zcall.pt.x1, One), 0)), Two)
    /\ (zcall.fn = "h" /\ zcall.mode[1] = 2) =>
          zcall.out = RSub(h(RAdd(zcall.pt.x1, One), 1), h(zcall.pt.x1, 1))

====
